---------------------------- MODULE Spec2Model ----------------------------
(***************************************************************************)
(* EPC QR code generator (EPC069-12 payload): the payment record and its   *)
(* builder, the validator, the serializer, the Amount parser and the       *)
(* command-line program, as state machines over the source's data.         *)
(*                                                                         *)
(* A Rust String is modelled as the sequence of its Unicode scalar values  *)
(* (code points): chars().count() is the sequence's length, len() is the   *)
(* number of bytes of its UTF-8 encoding.  An Option<T> is a sequence of   *)
(* at most one element: None is << >>, Some(x) is << x >>.                 *)
(***************************************************************************)
EXTENDS Integers, Sequences, FiniteSets

(***************************************************************************)
(* Strings and UTF-8                                                       *)
(***************************************************************************)

None == << >>

Some(x) == << x >>

is_some(o) == Len(o) = 1

\* the characters the source names
LF == 10

DOT == 46

PLUS == 43

SPACE == 32

SLASH == 47

BACKSLASH == 92

UNDERSCORE == 95

Digits == 48 .. 57

\* number of bytes of one scalar value in UTF-8
Utf8Len(c) ==
    IF c < 128 THEN 1 ELSE IF c < 2048 THEN 2 ELSE IF c < 65536 THEN 3 ELSE 4

\* the UTF-8 encoding of one scalar value
Utf8Encode(c) ==
    IF c < 128 THEN << c >>
    ELSE IF c < 2048 THEN << 192 + (c \div 64), 128 + (c % 64) >>
    ELSE IF c < 65536
         THEN << 224 + (c \div 4096), 128 + ((c \div 64) % 64), 128 + (c % 64) >>
         ELSE << 240 + (c \div 262144), 128 + ((c \div 4096) % 64),
                 128 + ((c \div 64) % 64), 128 + (c % 64) >>

RECURSIVE BytesOf(_, _, _)
BytesOf(s, lo, hi) ==
    IF lo > hi THEN << >>
    ELSE IF lo = hi THEN Utf8Encode(s[lo])
    ELSE LET mid == (lo + hi) \div 2
         IN BytesOf(s, lo, mid) \o BytesOf(s, mid + 1, hi)

\* String::into_bytes: the UTF-8 bytes of the text
into_bytes(s) == BytesOf(s, 1, Len(s))

RECURSIVE LenOf(_, _, _)
LenOf(s, lo, hi) ==
    IF lo > hi THEN 0
    ELSE IF lo = hi THEN Utf8Len(s[lo])
    ELSE LET mid == (lo + hi) \div 2
         IN LenOf(s, lo, mid) + LenOf(s, mid + 1, hi)

\* String::len: the length in bytes
len(s) == LenOf(s, 1, Len(s))

\* str::chars().count()
chars_count(s) == Len(s)

\* a string of n copies of the character c
Rep(c, n) == [i \in 1 .. n |-> c]

RECURSIVE ToDec(_)
\* format!("{}", n) of an unsigned integer
ToDec(n) == IF n < 10 THEN << 48 + n >> ELSE ToDec(n \div 10) \o << 48 + (n % 10) >>

\* format!("{:02}", n)
Pad2(n) == IF n < 10 THEN << 48 >> \o ToDec(n) ELSE ToDec(n)

RECURSIVE ReplaceIn(_, _, _, _, _)
ReplaceIn(s, from, to, lo, hi) ==
    IF lo > hi THEN << >>
    ELSE IF lo = hi THEN (IF s[lo] \in from THEN to ELSE << s[lo] >>)
    ELSE LET mid == (lo + hi) \div 2
         IN ReplaceIn(s, from, to, lo, mid) \o ReplaceIn(s, from, to, mid + 1, hi)

\* str::replace(from, to), from a set of single characters
Replace(s, from, to) == ReplaceIn(s, from, to, 1, Len(s))

\* the lines of a text: the pieces between its line feeds
Lines(s) ==
    LET P == {i \in 1 .. Len(s) : s[i] = LF}
        \* the position of the k-th line feed; 0 and Len(s) + 1 are the text's ends
        At(k) == IF k = 0 THEN 0
                 ELSE IF k > Cardinality(P) THEN Len(s) + 1
                 ELSE CHOOSE i \in P : Cardinality({j \in P : j < i}) = k - 1
    IN [k \in 1 .. Cardinality(P) + 1 |-> SubSeq(s, At(k - 1) + 1, At(k) - 1)]

(***************************************************************************)
(* Amount                                                                  *)
(***************************************************************************)

\* u32::MAX is 4294967295 and u8::MAX is 255, each as 10 * DIV10 + MOD10
U32_MAX_DIV10 == 429496729

U32_MAX_MOD10 == 5

U8_MAX_DIV10 == 25

U8_MAX_MOD10 == 5

Ok(v) == [ok |-> TRUE, val |-> v]

Err(e) == [ok |-> FALSE, err |-> e]

\* str::parse::<uN>(): an optional '+', then one or more decimal digits whose
\* value fits the type; the value is accumulated digit by digit and the
\* parse fails at the digit that would pass the type's maximum
ParseUnsigned(s, max_div10, max_mod10) ==
    LET d == IF Len(s) > 0 /\ s[1] = PLUS THEN Tail(s) ELSE s
        RECURSIVE Go(_, _)
        Go(i, acc) ==
            IF i > Len(d) THEN Ok(acc)
            ELSE IF d[i] \notin Digits THEN Err("ParseIntError")
            ELSE IF acc > max_div10 \/ (acc = max_div10 /\ d[i] - 48 > max_mod10)
                 THEN Err("ParseIntError")
            ELSE Go(i + 1, acc * 10 + (d[i] - 48))
    IN IF Len(d) = 0 THEN Err("ParseIntError") ELSE Go(1, 0)

\* str::split_once('.'): the index of the first '.', 0 when there is none
FirstDot(s) ==
    IF \E i \in 1 .. Len(s) : s[i] = DOT
    THEN CHOOSE i \in 1 .. Len(s) : s[i] = DOT /\ \A j \in 1 .. i - 1 : s[j] # DOT
    ELSE 0

OutOfRange(euro, cent) ==
    999999999 < euro \/ 99 < cent \/ (euro = 0 /\ cent = 0)

\* <Amount as FromStr>::from_str
from_str(s) ==
    LET i == FirstDot(s) IN
    IF i = 0 THEN Err("NoSeparator")
    ELSE LET euro == ParseUnsigned(SubSeq(s, 1, i - 1), U32_MAX_DIV10, U32_MAX_MOD10) IN
         IF ~euro.ok THEN euro
         ELSE LET cent == ParseUnsigned(SubSeq(s, i + 1, Len(s)), U8_MAX_DIV10, U8_MAX_MOD10) IN
              IF ~cent.ok THEN cent
              ELSE IF OutOfRange(euro.val, cent.val)
                   THEN [ok |-> FALSE, err |-> "OutOfRange",
                         euro |-> euro.val, cent |-> cent.val]
                   ELSE Ok([euro |-> euro.val, cent |-> cent.val])

(***************************************************************************)
(* The payment record, its builder, the validator and the serializer       *)
(***************************************************************************)

MAX_LENGTH_BYTES == 331

Reference(s) == [tag |-> "Reference", text |-> s]

Text(s) == [tag |-> "Text", text |-> s]

\* a constructor that picks the enumeration's second variant
new_latin1(beneficiary_name, beneficiary_account) ==
    [character_set |-> "ISO8859_01",
     bic |-> None,
     beneficiary_name |-> beneficiary_name,
     beneficiary_account |-> beneficiary_account,
     amount |-> None,
     purpose |-> None,
     remittance |-> None,
     info |-> None]

\* EpcQr::new
new(beneficiary_name, beneficiary_account) ==
    [character_set |-> "Utf8",
     bic |-> None,
     beneficiary_name |-> beneficiary_name,
     beneficiary_account |-> beneficiary_account,
     amount |-> None,
     purpose |-> None,
     remittance |-> None,
     info |-> None]

with_bic(self, bic) == [self EXCEPT !.bic = bic]

with_amount(self, amount) == [self EXCEPT !.amount = amount]

with_purpose(self, purpose) == [self EXCEPT !.purpose = purpose]

with_remittance(self, remittance) == [self EXCEPT !.remittance = remittance]

with_info(self, info) == [self EXCEPT !.info = info]

\* a validator that stops at the first violated rule
validate_first(self) ==
    LET flags(b, n, i, a, p, r, f) ==
            [ok |-> FALSE, err |-> "InvalidFieldLength", invalid_bic |-> b,
             invalid_name |-> n, invalid_iban |-> i, invalid_amount |-> a,
             invalid_purpose |-> p, invalid_remittance |-> r, invalid_info |-> f]
        F == FALSE
    IN IF is_some(self.bic) /\ chars_count(self.bic[1]) \notin {8, 11}
       THEN flags(TRUE, F, F, F, F, F, F)
       ELSE IF chars_count(self.beneficiary_name) \notin 1 .. 70
       THEN flags(F, TRUE, F, F, F, F, F)
       ELSE IF chars_count(self.beneficiary_account) \notin 1 .. 34
       THEN flags(F, F, TRUE, F, F, F, F)
       ELSE IF is_some(self.amount)
               /\ (999999999 < self.amount[1].euro \/ 99 < self.amount[1].cent
                   \/ (self.amount[1].euro = 0 /\ self.amount[1].cent = 0))
       THEN flags(F, F, F, TRUE, F, F, F)
       ELSE IF is_some(self.purpose) /\ chars_count(self.purpose[1]) \notin 1 .. 4
       THEN flags(F, F, F, F, TRUE, F, F)
       ELSE IF is_some(self.remittance)
               /\ IF self.remittance[1].tag = "Reference"
                  THEN chars_count(self.remittance[1].text) \notin 1 .. 35
                  ELSE chars_count(self.remittance[1].text) \notin 1 .. 140
       THEN flags(F, F, F, F, F, TRUE, F)
       ELSE IF is_some(self.info) /\ chars_count(self.info[1]) \notin 1 .. 70
       THEN flags(F, F, F, F, F, F, TRUE)
       ELSE [ok |-> TRUE]

\* EpcQr::validate
validate(self) ==
    LET invalid_bic ==
            is_some(self.bic) /\ chars_count(self.bic[1]) \notin {8, 11}
        invalid_name == chars_count(self.beneficiary_name) \notin 1 .. 70
        invalid_iban == chars_count(self.beneficiary_account) \notin 1 .. 34
        invalid_amount ==
            is_some(self.amount)
            /\ (999999999 < self.amount[1].euro \/ 99 < self.amount[1].cent
                \/ (self.amount[1].euro = 0 /\ self.amount[1].cent = 0))
        invalid_purpose ==
            is_some(self.purpose) /\ chars_count(self.purpose[1]) \notin 1 .. 4
        invalid_remittance ==
            is_some(self.remittance)
            /\ IF self.remittance[1].tag = "Reference"
               THEN chars_count(self.remittance[1].text) \notin 1 .. 35
               ELSE chars_count(self.remittance[1].text) \notin 1 .. 140
        invalid_info ==
            is_some(self.info) /\ chars_count(self.info[1]) \notin 1 .. 70
    IN IF invalid_bic \/ invalid_name \/ invalid_iban \/ invalid_amount
          \/ invalid_purpose \/ invalid_remittance \/ invalid_info
       THEN [ok |-> FALSE, err |-> "InvalidFieldLength",
             invalid_bic |-> invalid_bic,
             invalid_name |-> invalid_name,
             invalid_iban |-> invalid_iban,
             invalid_amount |-> invalid_amount,
             invalid_purpose |-> invalid_purpose,
             invalid_remittance |-> invalid_remittance,
             invalid_info |-> invalid_info]
       ELSE [ok |-> TRUE]

\* the text of "BCD\n", "001\n", "002\n", "1\n", "SCT\n" and "EUR"
StrBCD == << 66, 67, 68, LF >>

Str001 == << 48, 48, 49, LF >>

Str002 == << 48, 48, 50, LF >>

Str1 == << 49, LF >>

StrSCT == << 83, 67, 84, LF >>

StrEUR == << 69, 85, 82 >>

\* a version with the two tags exchanged
Version_swapped(self) == IF is_some(self.bic) THEN Str002 ELSE Str001

\* to_string's version: "001\n" with a bic, "002\n" without
Version(self) == IF is_some(self.bic) THEN Str001 ELSE Str002

\* the amount as to_string formats it, without the "EUR"
FormatAmount(amount) ==
    IF amount.cent % 10 = 0
    THEN ToDec(amount.euro) \o << DOT >> \o ToDec(amount.cent \div 10)
    ELSE ToDec(amount.euro) \o << DOT >> \o Pad2(amount.cent)

\* <EpcQr as ToString>::to_string
to_string(self) ==
    LET d0 == StrBCD \o Version(self) \o Str1 \o StrSCT
        d1 == IF is_some(self.bic) THEN d0 \o self.bic[1] ELSE d0
        d2 == d1 \o << LF >> \o self.beneficiary_name \o << LF >>
                 \o self.beneficiary_account
        d3 == IF is_some(self.amount)
              THEN d2 \o << LF >> \o StrEUR \o FormatAmount(self.amount[1])
              ELSE IF is_some(self.purpose) \/ is_some(self.remittance)
                      \/ is_some(self.info)
                   THEN d2 \o << LF >>
                   ELSE d2
        d4 == IF is_some(self.purpose)
              THEN d3 \o << LF >> \o self.purpose[1]
              ELSE IF is_some(self.remittance) \/ is_some(self.info)
                   THEN d3 \o << LF >>
                   ELSE d3
        d5 == IF is_some(self.remittance)
              THEN d4 \o << LF >> \o self.remittance[1].text
              ELSE IF is_some(self.info)
                   THEN d4 \o << LF >> \o self.info[1]
                   ELSE d4
    IN d5

\* the failed assert! of EpcQr::data: the thread panics
Panic == [ok |-> FALSE, err |-> "panic"]

\* data with the size test strict: a text of exactly 331 bytes is refused
data_strict(self) ==
    LET v == validate(self) IN
    IF ~v.ok THEN v
    ELSE IF self.character_set # "Utf8" THEN Panic
    ELSE LET d == to_string(self) IN
         IF len(d) < MAX_LENGTH_BYTES
         THEN Ok(into_bytes(d))
         ELSE Err("TooLargeTotal")

\* EpcQr::data
data(self) ==
    LET v == validate(self) IN
    IF ~v.ok THEN v
    ELSE IF self.character_set # "Utf8" THEN Panic
    ELSE LET d == to_string(self) IN
         IF len(d) <= MAX_LENGTH_BYTES
         THEN Ok(into_bytes(d))
         ELSE Err("TooLargeTotal")

(***************************************************************************)
(* A caller of the library: EpcQr::new, then builder calls in any order,   *)
(* then one of validate, to_string and data on the record built.           *)
(***************************************************************************)

VARIABLES
    pc,         \* where the caller (or main) stands
    epc_qr,     \* Option<EpcQr>: the record built so far
    calls,      \* builder calls made on the record
    result,     \* Option: what the last operation returned
    input,      \* the raw input: the command line, or an amount text
    args,       \* Option<CliArgs>: the parsed command line
    remittance, \* Option<Remittance>: main's remittance
    file_name,  \* Option<String>: main's file_name
    stdout      \* Option<String>: what main printed

vars == << pc, epc_qr, calls, result, input, args, remittance, file_name, stdout >>

\* builder calls a caller makes after EpcQr::new
MaxCalls == 2

\* the characters of the inputs: 'A', U+00E4, U+20AC and U+1F600, of 1, 2, 3
\* and 4 bytes in UTF-8
InputChars == << 65, 228, 8364, 128512 >>

CharA == InputChars[1]

CharAUml == InputChars[2]

CharEuro == InputChars[3]

CharGrin == InputChars[4]

NameInputs ==
    {Rep(CharA, n) : n \in {0, 1, 70, 71}}
    \cup {Rep(CharGrin, 70), << CharA, LF, CharA >>}

AccountInputs ==
    {Rep(CharA, n) : n \in {0, 1, 34, 35}}
    \cup {Rep(CharA, 33) \o << CharAUml >>, Rep(CharA, 32) \o << CharAUml, CharAUml >>}

BicInputs == {None} \cup {Some(Rep(CharA, n)) : n \in {7, 8, 9, 11, 12}}

\* values of struct Amount (euro: u32, cent: u8), those that from_str refuses
\* included: the fields are plain integers and validate tests them again
AmountValues ==
    {[euro |-> 0, cent |-> 0], [euro |-> 0, cent |-> 1], [euro |-> 12, cent |-> 5],
     [euro |-> 12, cent |-> 50], [euro |-> 999999999, cent |-> 99],
     [euro |-> 1000000000, cent |-> 0], [euro |-> 1, cent |-> 100]}

AmountArgs == {None} \cup {Some(a) : a \in AmountValues}

PurposeInputs == {None} \cup {Some(Rep(CharA, n)) : n \in {0, 1, 4, 5}}

RemittanceInputs ==
    {None}
    \cup {Some(Reference(Rep(CharA, n))) : n \in {0, 1, 35, 36}}
    \cup {Some(Text(Rep(CharEuro, n))) : n \in {0, 1, 140, 141}}

InfoInputs ==
    {None} \cup {Some(Rep(CharA, n)) : n \in {0, 1, 70, 71}} \cup {Some(<< LF >>)}

Init ==
    /\ pc = "new"
    /\ epc_qr = None
    /\ calls = 0
    /\ result = None
    /\ input = None
    /\ args = None
    /\ remittance = None
    /\ file_name = None
    /\ stdout = None

New ==
    /\ pc = "new"
    /\ \E n \in NameInputs, a \in AccountInputs : epc_qr' = Some(new(n, a))
    /\ pc' = "building"
    /\ UNCHANGED << calls, result, input, args, remittance, file_name, stdout >>

Building == pc = "building" /\ calls < MaxCalls

WithBic ==
    /\ Building
    /\ \E b \in BicInputs : epc_qr' = Some(with_bic(epc_qr[1], b))
    /\ calls' = calls + 1
    /\ UNCHANGED << pc, result, input, args, remittance, file_name, stdout >>

WithAmount ==
    /\ Building
    /\ \E a \in AmountArgs : epc_qr' = Some(with_amount(epc_qr[1], a))
    /\ calls' = calls + 1
    /\ UNCHANGED << pc, result, input, args, remittance, file_name, stdout >>

WithPurpose ==
    /\ Building
    /\ \E p \in PurposeInputs : epc_qr' = Some(with_purpose(epc_qr[1], p))
    /\ calls' = calls + 1
    /\ UNCHANGED << pc, result, input, args, remittance, file_name, stdout >>

WithRemittance ==
    /\ Building
    /\ \E r \in RemittanceInputs : epc_qr' = Some(with_remittance(epc_qr[1], r))
    /\ calls' = calls + 1
    /\ UNCHANGED << pc, result, input, args, remittance, file_name, stdout >>

WithInfo ==
    /\ Building
    /\ \E i \in InfoInputs : epc_qr' = Some(with_info(epc_qr[1], i))
    /\ calls' = calls + 1
    /\ UNCHANGED << pc, result, input, args, remittance, file_name, stdout >>

CallValidate ==
    /\ pc = "building"
    /\ result' = Some(validate(epc_qr[1]))
    /\ pc' = "validated"
    /\ UNCHANGED << epc_qr, calls, input, args, remittance, file_name, stdout >>

CallToString ==
    /\ pc = "building"
    /\ result' = Some(to_string(epc_qr[1]))
    /\ pc' = "serialized"
    /\ UNCHANGED << epc_qr, calls, input, args, remittance, file_name, stdout >>

CallData ==
    /\ pc = "building"
    /\ result' = Some(data(epc_qr[1]))
    /\ pc' = "data"
    /\ UNCHANGED << epc_qr, calls, input, args, remittance, file_name, stdout >>

Next ==
    \/ New
    \/ WithBic
    \/ WithAmount
    \/ WithPurpose
    \/ WithRemittance
    \/ WithInfo
    \/ CallValidate
    \/ CallToString
    \/ CallData

Spec == Init /\ [][Next]_vars

(***************************************************************************)
(* Amount::from_str and the amount line: a text is parsed, the amount is   *)
(* put into a record and the record is serialized.                         *)
(***************************************************************************)

\* the euro sides and the cent sides of the amount texts.  The model's
\* integers are 32-bit signed: no euro side denotes a number from 2^31 to
\* 2^32 - 1, which a u32 holds and the model cannot
EuroTexts ==
    {<< 48 >>, << 48, 48 >>, << 49, 50 >>, Rep(57, 9), << 49 >> \o Rep(48, 9),
     << 52, 50, 57, 52, 57, 54, 55, 50, 57, 54 >>, << >>, << PLUS, 49 >>,
     << 120 >>}

CentTexts ==
    {<< 48 >>, << 48, 48 >>, << 53 >>, << 53, 48 >>, << 48, 53 >>, << 53, 53 >>,
     << 57, 57 >>, << 49, 48, 48 >>, << 50, 53, 53 >>, << 50, 53, 54 >>,
     << 48, 48, 53 >>, << >>, << 97 >>, << 53, DOT, 48 >>}

AmountInputs ==
    {e \o << DOT >> \o c : e \in EuroTexts, c \in CentTexts}
    \cup {<< >>, << 49, 50, 53 >>, << 49, 50, 44, 53, 48 >>}

AmountInit ==
    /\ pc = "amount_input"
    /\ input \in {Some(s) : s \in AmountInputs}
    /\ epc_qr = None
    /\ calls = 0
    /\ result = None
    /\ args = None
    /\ remittance = None
    /\ file_name = None
    /\ stdout = None

AmountParse ==
    /\ pc = "amount_input"
    /\ result' = Some(from_str(input[1]))
    /\ pc' = "amount_parsed"
    /\ UNCHANGED << epc_qr, calls, input, args, remittance, file_name, stdout >>

AmountCarry ==
    /\ pc = "amount_parsed"
    /\ result[1].ok
    /\ epc_qr' = Some(with_amount(new(<< CharA >>, << CharA >>), Some(result[1].val)))
    /\ calls' = calls + 1
    /\ pc' = "amount_carried"
    /\ UNCHANGED << result, input, args, remittance, file_name, stdout >>

AmountSerialize ==
    /\ pc = "amount_carried"
    /\ result' = Some(to_string(epc_qr[1]))
    /\ pc' = "amount_serialized"
    /\ UNCHANGED << epc_qr, calls, input, args, remittance, file_name, stdout >>

AmountNext ==
    \/ AmountParse
    \/ AmountCarry
    \/ AmountSerialize

AmountSpec == AmountInit /\ [][AmountNext]_vars

(***************************************************************************)
(* The command-line program: main                                          *)
(***************************************************************************)

StrEpc == << 101, 112, 99, 45 >>

StrQrCodePng == << 45, 113, 114, 45, 99, 111, 100, 101, DOT, 112, 110, 103 >>

CommandLines ==
    [bic : {None, Some(Rep(CharA, 8)), Some(Rep(CharA, 7))},
     beneficiary_name : {<< CharA >>, << >>},
     beneficiary_account : {<< 68, SPACE, 69 >>, << 68, 69 >>},
     amount : {None, Some(<< 49, 50, DOT, 53 >>), Some(<< 48, DOT, 48, 48 >>),
               Some(<< 120 >>)},
     purpose : {None, Some(<< CharA, CharA >>)},
     remittance_reference : {None, Some(<< 82, SLASH, 49 >>)},
     remittance_text : {None, Some(<< 84 >>)},
     info : {None, Some(<< 73 >>)},
     image_format : {"png", "qoi"}]

MainInit ==
    /\ pc = "main"
    /\ input \in {Some(c) : c \in CommandLines}
    /\ epc_qr = None
    /\ calls = 0
    /\ result = None
    /\ args = None
    /\ remittance = None
    /\ file_name = None
    /\ stdout = None

\* CliArgs::parse(): the amount is parsed by Amount::from_str; a value that
\* does not parse ends the process with the parser's usage error
MainParseArgs ==
    /\ pc = "main"
    /\ LET c == input[1]
           a == IF c.amount = None THEN Ok(None) ELSE from_str(c.amount[1])
       IN IF a.ok
          THEN /\ args' = Some([c EXCEPT !.amount =
                                   IF c.amount = None THEN None ELSE Some(a.val)])
               /\ pc' = "parsed"
               /\ result' = result
          ELSE /\ args' = args
               /\ pc' = "exited"
               /\ result' = Some(Err("clap::Error"))
    /\ UNCHANGED << epc_qr, calls, input, remittance, file_name, stdout >>

\* main, lines 29 to 65: the remittance, the file name, the account's spaces
MainPrepare ==
    /\ pc = "parsed"
    /\ LET a == args[1]
           ref == a.remittance_reference
           txt == a.remittance_text
           rem == IF txt # None THEN Some(Text(txt[1]))
                  ELSE IF ref # None THEN Some(Reference(ref[1]))
                  ELSE None
           name == StrEpc
                   \o (IF a.bic # None THEN a.bic[1] \o << 45 >> ELSE << >>)
                   \o a.beneficiary_account
                   \o (IF rem # None THEN << 45 >> \o rem[1].text ELSE << >>)
                   \o StrQrCodePng
       IN IF ref # None /\ txt # None
          THEN /\ result' = Some(Err("DuplicateRemittance"))
               /\ pc' = "returned"
               /\ UNCHANGED << args, remittance, file_name >>
          ELSE /\ remittance' = rem
               /\ file_name' =
                     Some(Replace(name, {SLASH, BACKSLASH, SPACE}, << UNDERSCORE >>))
               /\ args' = Some([a EXCEPT !.beneficiary_account =
                                    Replace(a.beneficiary_account, {SPACE}, << >>)])
               /\ pc' = "prepared"
               /\ result' = result
    /\ UNCHANGED << epc_qr, calls, input, stdout >>

\* main, lines 67 to 72: EpcQr::new and the five builder calls
MainBuild ==
    /\ pc = "prepared"
    /\ LET a == args[1] IN
       epc_qr' = Some(with_info(with_remittance(with_purpose(with_amount(with_bic(
                     new(a.beneficiary_name, a.beneficiary_account),
                     a.bic), a.amount), a.purpose), remittance), a.info))
    /\ calls' = calls + 5
    /\ pc' = "built"
    /\ UNCHANGED << result, input, args, remittance, file_name, stdout >>

\* main, lines 74 and 75: the text is made and printed, with println!'s line feed
MainPrint ==
    /\ pc = "built"
    /\ stdout' = Some(to_string(epc_qr[1]) \o << LF >>)
    /\ pc' = "printed"
    /\ UNCHANGED << epc_qr, calls, result, input, args, remittance, file_name >>

\* the outcomes of the QR renderer and the image encoder behind
\* generate_image_file, which are not part of this program
ExternalOutcomes == {"Ok", "QrError", "ImageError", "Io"}

\* main, line 77: generate_image_file, which calls data and hands the bytes
\* to the renderer and the encoder; main returns what it returns
MainGenerate ==
    /\ pc = "printed"
    /\ LET d == data(epc_qr[1]) IN
       IF ~d.ok
       THEN result' = Some(d)
       ELSE \E o \in ExternalOutcomes :
               result' = Some(IF o = "Ok" THEN Ok(o) ELSE Err(o))
    /\ pc' = "returned"
    /\ UNCHANGED << epc_qr, calls, input, args, remittance, file_name, stdout >>

MainNext ==
    \/ MainParseArgs
    \/ MainPrepare
    \/ MainBuild
    \/ MainPrint
    \/ MainGenerate

MainSpec == MainInit /\ [][MainNext]_vars

(***************************************************************************)
(* Properties of the library under any caller (Spec)                       *)
(***************************************************************************)

\* the record and the returned value of the state
Rec == epc_qr[1]

Out == result[1]

\* no field of the record holds a line feed
NoLineFeed(r) ==
    LET free(s) == \A i \in 1 .. Len(s) : s[i] # LF
    IN /\ free(r.beneficiary_name)
       /\ free(r.beneficiary_account)
       /\ is_some(r.bic) => free(r.bic[1])
       /\ is_some(r.purpose) => free(r.purpose[1])
       /\ is_some(r.remittance) => free(r.remittance[1].text)
       /\ is_some(r.info) => free(r.info[1])

\* the position, 1 to 4, of the last present field among amount, purpose,
\* remittance and info; 0 when none is present
LastPresent(r) ==
    IF is_some(r.info) THEN 4
    ELSE IF is_some(r.remittance) THEN 3
    ELSE IF is_some(r.purpose) THEN 2
    ELSE IF is_some(r.amount) THEN 1
    ELSE 0

\* the seven leading lines of the payload of a record
HeadLines(r) ==
    << << 66, 67, 68 >>,
       IF r.bic # None THEN << 48, 48, 49 >> ELSE << 48, 48, 50 >>,
       << 49 >>,
       << 83, 67, 84 >>,
       IF r.bic # None THEN r.bic[1] ELSE << >>,
       r.beneficiary_name,
       r.beneficiary_account >>

\* lines joined by single line feeds
JoinLines(ls) ==
    LET RECURSIVE Go(_)
        Go(k) == IF k = 1 THEN ls[1] ELSE Go(k - 1) \o << LF >> \o ls[k]
    IN IF Len(ls) = 0 THEN << >> ELSE Go(Len(ls))

\* the flags the seven rules give a record, each from its own rule
RuleFlags(r) ==
    [invalid_bic |-> r.bic # None /\ Len(r.bic[1]) # 8 /\ Len(r.bic[1]) # 11,
     invalid_name |-> Len(r.beneficiary_name) < 1 \/ Len(r.beneficiary_name) > 70,
     invalid_iban |->
        Len(r.beneficiary_account) < 1 \/ Len(r.beneficiary_account) > 34,
     invalid_amount |->
        r.amount # None
        /\ (r.amount[1].euro > 999999999 \/ r.amount[1].cent > 99
            \/ (r.amount[1].euro = 0 /\ r.amount[1].cent = 0)),
     invalid_purpose |->
        r.purpose # None /\ (Len(r.purpose[1]) < 1 \/ Len(r.purpose[1]) > 4),
     invalid_remittance |->
        r.remittance # None
        /\ \/ Len(r.remittance[1].text) < 1
           \/ r.remittance[1].tag = "Reference" /\ Len(r.remittance[1].text) > 35
           \/ r.remittance[1].tag = "Text" /\ Len(r.remittance[1].text) > 140,
     invalid_info |-> r.info # None /\ (Len(r.info[1]) < 1 \/ Len(r.info[1]) > 70)]

FlagNames ==
    {"invalid_bic", "invalid_name", "invalid_iban", "invalid_amount",
     "invalid_purpose", "invalid_remittance", "invalid_info"}

NoRuleViolated(r) == \A f \in FlagNames : ~RuleFlags(r)[f]

\* C1: to_string emits each of the lines 8 (amount), 9 (purpose), 10
\* (remittance), 11 (info) exactly when that field or a later one is present:
\* the text has 7 + k lines, k the position of the last present field, and the
\* lines of absent fields before it are empty.  Stated for the records that
\* pass validation and whose fields hold no line feed, where the lines of the
\* text are its fields.
C1_TrailingLines ==
    (pc = "serialized" /\ NoRuleViolated(Rec) /\ NoLineFeed(Rec)) =>
        LET ls == Lines(Out) IN
        /\ Len(ls) = 7 + LastPresent(Rec)
        /\ (LastPresent(Rec) = 4 /\ Rec.amount = None) => ls[8] = << >>
        /\ (LastPresent(Rec) = 4 /\ Rec.purpose = None) => ls[9] = << >>
        /\ (LastPresent(Rec) = 4 /\ Rec.remittance = None) => ls[10] = << >>

\* C2: when remittance and info are both present, line 10 of the text is the
\* remittance's inner string and line 11 is the info string.  Stated for the
\* records that pass validation and whose fields hold no line feed.
C2_RemittanceAndInfo ==
    (pc = "serialized" /\ NoRuleViolated(Rec) /\ NoLineFeed(Rec)
     /\ Rec.remittance # None /\ Rec.info # None) =>
        LET ls == Lines(Out) IN
        /\ Len(ls) = 11
        /\ ls[10] = Rec.remittance[1].text
        /\ ls[11] = Rec.info[1]

\* C4: validate returns Ok exactly when no rule is violated, and otherwise one
\* InvalidFieldLength whose every flag is that of its own rule.
C4_ValidateFlags ==
    pc = "validated" =>
        /\ Out.ok <=> NoRuleViolated(Rec)
        /\ ~Out.ok =>
              /\ Out.err = "InvalidFieldLength"
              /\ \A f \in FlagNames : Out[f] = RuleFlags(Rec)[f]

\* a free text one character over its maximum, alone, sets its own flag only
C4_Witness ==
    /\ pc = "validated"
    /\ Rec.remittance # None
    /\ Rec.remittance[1].tag = "Text"
    /\ Len(Rec.remittance[1].text) = 141
    /\ Len(Rec.beneficiary_name) = 70
    /\ ~Out.ok
    /\ \A f \in FlagNames : Out[f] = (f = "invalid_remittance")

\* C5: data returns the validator's error unchanged for a record that fails
\* validation; for one that passes it returns TooLargeTotal exactly when the
\* UTF-8 encoding of the text has more than 331 bytes, and otherwise the
\* bytes of the text.
C5_DataSize ==
    pc = "data" =>
        LET bytes == into_bytes(to_string(Rec)) IN
        /\ ~NoRuleViolated(Rec) =>
              /\ ~Out.ok
              /\ Out.err = "InvalidFieldLength"
              /\ \A f \in FlagNames : Out[f] = RuleFlags(Rec)[f]
        /\ (NoRuleViolated(Rec) /\ Len(bytes) > 331) => Out = Err("TooLargeTotal")
        /\ (NoRuleViolated(Rec) /\ Len(bytes) <= 331) => Out = Ok(bytes)

\* a record within every character limit whose text has 332 bytes
C5_Witness ==
    /\ pc = "data"
    /\ NoRuleViolated(Rec)
    /\ Len(into_bytes(to_string(Rec))) = 332
    /\ Out = Err("TooLargeTotal")

\* C7: the text begins with the seven lines BCD, the version (001 with a bic,
\* 002 without), 1, SCT, the bic or an empty line, the name, the account,
\* and is exactly these lines when no trailing field is present.
C7_HeadLines ==
    pc = "serialized" =>
        LET head == JoinLines(HeadLines(Rec)) IN
        /\ Len(Out) >= Len(head)
        /\ SubSeq(Out, 1, Len(head)) = head
        /\ LastPresent(Rec) = 0 => Out = head
        /\ LastPresent(Rec) > 0 => Out[Len(head) + 1] = LF
        /\ NoLineFeed(Rec) => SubSeq(Lines(Out), 1, 7) = HeadLines(Rec)

\* a record with a bic and no trailing field: seven lines, version 001
C7_Witness ==
    /\ pc = "serialized"
    /\ Rec.bic # None
    /\ LastPresent(Rec) = 0
    /\ Len(Lines(Out)) = 7
    /\ Lines(Out)[2] = << 48, 48, 49 >>

\* C8: the record's character set is UTF-8 after any builder calls, so data
\* ends by returning the bytes, InvalidFieldLength or TooLargeTotal, never by
\* the failed assertion.
C8_Utf8NoAbort ==
    /\ epc_qr # None => Rec.character_set = "Utf8"
    /\ pc = "data" =>
          /\ Out # Panic
          /\ Out.ok \/ Out.err \in {"InvalidFieldLength", "TooLargeTotal"}

\* data returned bytes after the caller made builder calls
C8_Witness ==
    /\ pc = "data"
    /\ calls >= 2
    /\ Rec.bic # None
    /\ Rec.info # None
    /\ Out.ok

\* C10: for a record that passes validate, whatever its characters, the text
\* has 7 to 11 lines, line 6 is the name and line 7 the account.
C10_Alignment ==
    (pc = "serialized" /\ NoRuleViolated(Rec)) =>
        LET ls == Lines(Out) IN
        /\ Len(ls) >= 7
        /\ Len(ls) <= 11
        /\ ls[6] = Rec.beneficiary_name
        /\ ls[7] = Rec.beneficiary_account

(***************************************************************************)
(* Properties of the Amount parser (AmountSpec) and of main (MainSpec)     *)
(***************************************************************************)

\* a non-empty string of decimal digits
DigitString(s) == Len(s) > 0 /\ \A i \in 1 .. Len(s) : s[i] \in Digits

\* a digit string without its leading zeros: empty exactly when it denotes 0
StripZeros(s) ==
    LET nz == {i \in 1 .. Len(s) : s[i] # 48}
    IN IF nz = {} THEN << >>
       ELSE SubSeq(s, CHOOSE i \in nz : \A j \in nz : i <= j, Len(s))

\* the number a digit string of at most nine digits denotes
RECURSIVE Denotes(_)
Denotes(s) ==
    IF Len(s) = 0 THEN 0
    ELSE 10 * Denotes(SubSeq(s, 1, Len(s) - 1)) + (s[Len(s)] - 48)

\* the two sides of the amount text of the state, around its first '.'
HasDot == \E i \in 1 .. Len(input[1]) : input[1][i] = DOT

EuroSide == SubSeq(input[1], 1, FirstDot(input[1]) - 1)

CentSide == SubSeq(input[1], FirstDot(input[1]) + 1, Len(input[1]))

\* C3: an amount text E.D with one or two fraction digits that parses is
\* rendered, in the record's text, as the line EUR followed by the same E
\* and the same digits D ("12.5" as EUR12.5, "12.50" as EUR12.50).  E is
\* taken in its canonical form, without sign or leading zero.
C3_AmountRoundTrip ==
    (/\ pc = "amount_serialized"
     /\ DigitString(EuroSide)
     /\ (EuroSide = << 48 >> \/ EuroSide[1] # 48)
     /\ DigitString(CentSide)
     /\ Len(CentSide) \in {1, 2}) =>
        Lines(Out)[8] = StrEUR \o input[1]

\* C6: from_str fails with NoSeparator without a '.'; for two digit strings
\* of any magnitude it fails with OutOfRange exactly when E > 999,999,999 or
\* C > 99 or both are zero, and otherwise succeeds with (E, C); the parse
\* error is returned only when a side is no non-negative integer.  A digit
\* string denotes more than 999,999,999 (more than 99) exactly when it has
\* more than nine (two) digits after its leading zeros.
C6_AmountErrors ==
    pc = "amount_parsed" =>
        /\ ~HasDot => Out = Err("NoSeparator")
        /\ (HasDot /\ DigitString(EuroSide) /\ DigitString(CentSide)) =>
              LET e == StripZeros(EuroSide)
                  c == StripZeros(CentSide)
              IN IF Len(e) > 9 \/ Len(c) > 2 \/ (e = << >> /\ c = << >>)
                 THEN ~Out.ok /\ Out.err = "OutOfRange"
                 ELSE Out = Ok([euro |-> Denotes(e), cent |-> Denotes(c)])
        /\ (HasDot /\ ~Out.ok /\ Out.err = "ParseIntError") =>
              ~DigitString(EuroSide) \/ ~DigitString(CentSide)

\* C9: main emits the payload text only after the validator has accepted the
\* record: when main returns the validator's error, nothing was printed.
C9_NoTextBeforeValidation ==
    (pc = "returned" /\ ~Out.ok /\ Out.err = "InvalidFieldLength") => stdout = None

=============================================================================
